---- MODULE Spec2Model ----
(***************************************************************************)
(* Model of pdf_invoice_scanner.py: the text extractor, the structured     *)
(* extractor (remote call, code-fence stripping, JSON parsing) and the     *)
(* command-line pipeline around them.                                      *)
(*                                                                         *)
(* A text (Python str) is a sequence of one-character strings over the     *)
(* characters ^ j s o n { } [ ] " : , a, the digits, space and newline, on *)
(* which the JSON grammar has numbers of digits only, strings without      *)
(* escapes, arrays and objects.  A JSON                                    *)
(* value is a pair <<tag, payload>>:                                       *)
(*   <<"int", n>>        a number                                          *)
(*   <<"str", chars>>    a string                                          *)
(*   <<"list", values>>  an array                                          *)
(*   <<"dict", pairs>>   an object, pairs <<key, value>> in insertion order*)
(***************************************************************************)
EXTENDS Integers, Sequences, FiniteSets

\* ------------------------------------------------------------------ bounds

\* Most lines in a model completion.
MaxLines == 3

\* Most pages in the PDF document of a command-line run.
MaxPages == 2

\* Most pages in the PDF document of a direct extract_text_from_pdf call.
MaxDirectPages == 3

\* ------------------------------------------------------- str primitives

NL == "\n"
SP == " "
\* The backquote of a code fence (written ^: a TLA+ string cannot hold a backquote).
BT == "^"
QT == "\""

\* The characters str.strip() removes, among those the model uses.
Whitespace == {SP, NL}

\* s[i:] with a 0-based Python index i >= 0.
DropChars(s, i) == SubSeq(s, i + 1, Len(s))

\* str.startswith(prefix)
StartsWith(s, prefix) ==
    /\ Len(s) >= Len(prefix)
    /\ SubSeq(s, 1, Len(prefix)) = prefix

RECURSIVE LStrip(_)
\* str.lstrip()
LStrip(s) ==
    IF s # <<>> /\ Head(s) \in Whitespace THEN LStrip(Tail(s)) ELSE s

RECURSIVE RStrip(_)
\* str.rstrip()
RStrip(s) ==
    IF s # <<>> /\ s[Len(s)] \in Whitespace
    THEN RStrip(SubSeq(s, 1, Len(s) - 1))
    ELSE s

\* str.strip()
Strip(s) == RStrip(LStrip(s))

RECURSIVE Split(_, _)
\* str.split(sep) for a one-character separator: always at least one piece.
Split(s, sep) ==
    IF \E i \in 1..Len(s) : s[i] = sep
    THEN LET i == CHOOSE k \in 1..Len(s) :
                      /\ s[k] = sep
                      /\ \A m \in 1..(k - 1) : s[m] # sep
         IN  <<SubSeq(s, 1, i - 1)>> \o Split(SubSeq(s, i + 1, Len(s)), sep)
    ELSE <<s>>

RECURSIVE Join(_, _)
\* sep.join(parts)
Join(sep, parts) ==
    IF parts = <<>> THEN <<>>
    ELSE IF Len(parts) = 1 THEN parts[1]
    ELSE parts[1] \o sep \o Join(sep, Tail(parts))

\* ------------------------------------------------------------ json.loads

Digits == <<"0", "1", "2", "3", "4", "5", "6", "7", "8", "9">>

DigitChars == {Digits[i] : i \in 1..10}

DigitValue(c) == (CHOOSE i \in 1..10 : Digits[i] = c) - 1

\* A failed scan.
NoParse == [ok |-> FALSE, v |-> <<>>, i |-> 0]

Parsed(v, i) == [ok |-> TRUE, v |-> v, i |-> i]

RECURSIVE SkipWS(_, _)
\* The first position at or after i that holds no JSON whitespace.
SkipWS(s, i) ==
    IF i <= Len(s) /\ s[i] \in Whitespace THEN SkipWS(s, i + 1) ELSE i

RECURSIVE ScanNumber(_, _, _)
\* The longest run of digits from position i, read as a decimal number.
ScanNumber(s, i, acc) ==
    IF i <= Len(s) /\ s[i] \in DigitChars
    THEN ScanNumber(s, i + 1, acc * 10 + DigitValue(s[i]))
    ELSE Parsed(<<"int", acc>>, i)

\* A string whose opening quote is at position i: it runs to the next quote,
\* and a raw control character (a newline) before that quote is an error.
ScanString(s, i) ==
    LET ends == {k \in (i + 1)..Len(s) : s[k] \in {QT, NL}}
    IN  IF ends = {} THEN NoParse
        ELSE LET k == CHOOSE e \in ends : \A f \in ends : e <= f
             IN  IF s[k] = NL THEN NoParse
                 ELSE Parsed(<<"str", SubSeq(s, i + 1, k - 1)>>, k + 1)

\* dict[key] = value: a repeated key keeps its place and takes the new value.
DictSet(pairs, key, value) ==
    IF \E n \in 1..Len(pairs) : pairs[n][1] = key
    THEN [n \in 1..Len(pairs) |->
              IF pairs[n][1] = key THEN <<key, value>> ELSE pairs[n]]
    ELSE Append(pairs, <<key, value>>)

RECURSIVE ScanValue(_, _)
RECURSIVE ScanArrayItems(_, _, _)
RECURSIVE ScanObjectItems(_, _, _)

\* The items of an array from position i (after "[" or ","), up to its "]".
ScanArrayItems(s, i, acc) ==
    LET item == ScanValue(s, i)
    IN  IF ~item.ok THEN NoParse
        ELSE LET j == SkipWS(s, item.i)
                 items == Append(acc, item.v)
             IN  IF j > Len(s) THEN NoParse
                 ELSE IF s[j] = "]" THEN Parsed(<<"list", items>>, j + 1)
                 ELSE IF s[j] = "," THEN ScanArrayItems(s, SkipWS(s, j + 1), items)
                 ELSE NoParse

\* The members of an object from position i, which must hold a key's opening
\* quote, up to the object's "}".
ScanObjectItems(s, i, acc) ==
    IF i > Len(s) \/ s[i] # QT THEN NoParse
    ELSE LET key == ScanString(s, i)
         IN  IF ~key.ok THEN NoParse
             ELSE LET c == SkipWS(s, key.i)
                  IN  IF c > Len(s) \/ s[c] # ":" THEN NoParse
                      ELSE LET val == ScanValue(s, SkipWS(s, c + 1))
                           IN  IF ~val.ok THEN NoParse
                               ELSE LET j == SkipWS(s, val.i)
                                        items == DictSet(acc, key.v[2], val.v)
                                    IN  IF j > Len(s) THEN NoParse
                                        ELSE IF s[j] = "}"
                                        THEN Parsed(<<"dict", items>>, j + 1)
                                        ELSE IF s[j] = ","
                                        THEN ScanObjectItems(s, SkipWS(s, j + 1), items)
                                        ELSE NoParse

\* One JSON value starting exactly at position i.
ScanValue(s, i) ==
    IF i > Len(s) THEN NoParse
    ELSE IF s[i] = QT THEN ScanString(s, i)
    ELSE IF s[i] = "{" THEN
        LET j == SkipWS(s, i + 1)
        IN  IF j <= Len(s) /\ s[j] = "}" THEN Parsed(<<"dict", <<>>>>, j + 1)
            ELSE ScanObjectItems(s, j, <<>>)
    ELSE IF s[i] = "[" THEN
        LET j == SkipWS(s, i + 1)
        IN  IF j <= Len(s) /\ s[j] = "]" THEN Parsed(<<"list", <<>>>>, j + 1)
            ELSE ScanArrayItems(s, j, <<>>)
    ELSE IF s[i] \in DigitChars \ {"0"} THEN ScanNumber(s, i, 0)
    ELSE IF s[i] = "0" THEN Parsed(<<"int", 0>>, i + 1)
    ELSE NoParse

\* json.loads(s): one value, surrounded by optional whitespace and nothing
\* else; ok = FALSE stands for json.JSONDecodeError.
JsonLoads(s) ==
    LET r == ScanValue(s, SkipWS(s, 1))
    IN  IF r.ok /\ SkipWS(s, r.i) > Len(s) THEN r ELSE NoParse

\* ------------------------------------------------------------ json.dumps

\* indent = 2 if args.pretty
IndentWidth == 2

\* len("json"), the slice json_text[4:]
JsonTagLen == 4

RECURSIVE IntToStr(_)
\* str(n) for n >= 0
IntToStr(n) ==
    IF n < 10 THEN <<Digits[n + 1]>>
    ELSE IntToStr(n \div 10) \o <<Digits[(n % 10) + 1]>>

\* The escape of one character of a string (ensure_ascii=False).
EscapeChar(c) ==
    IF c = QT THEN <<"\\", QT>>
    ELSE IF c = NL THEN <<"\\", "n">>
    ELSE IF c = "\\" THEN <<"\\", "\\">>
    ELSE <<c>>

RECURSIVE EscapeChars(_)
EscapeChars(s) ==
    IF s = <<>> THEN <<>> ELSE EscapeChar(Head(s)) \o EscapeChars(Tail(s))

\* A string literal.
EncodeString(s) == <<QT>> \o EscapeChars(s) \o <<QT>>

RECURSIVE Spaces(_)
Spaces(n) == IF n = 0 THEN <<>> ELSE <<SP>> \o Spaces(n - 1)

\* "\n" followed by the indentation of nesting level `level`.
NewlineIndent(level) == <<NL>> \o Spaces(IndentWidth * level)

\* The separator between two items of a container at nesting level `level`.
ItemSeparator(pretty, level) ==
    IF pretty THEN <<",">> \o NewlineIndent(level) ELSE <<",", SP>>

RECURSIVE Encode(_, _, _)
RECURSIVE EncodeItems(_, _, _, _)

\* The items of a list (isDict = FALSE) or the members of a dict, separated.
EncodeItems(items, isDict, pretty, level) ==
    IF items = <<>> THEN <<>>
    ELSE LET first == IF isDict
                      THEN EncodeString(items[1][1]) \o <<":", SP>>
                               \o Encode(items[1][2], pretty, level)
                      ELSE Encode(items[1], pretty, level)
         IN  IF Len(items) = 1 THEN first
             ELSE first \o ItemSeparator(pretty, level)
                      \o EncodeItems(Tail(items), isDict, pretty, level)

\* The text of value v, itself at nesting level `level`.
Encode(v, pretty, level) ==
    IF v[1] = "int" THEN IntToStr(v[2])
    ELSE IF v[1] = "str" THEN EncodeString(v[2])
    ELSE LET open == IF v[1] = "dict" THEN "{" ELSE "["
             close == IF v[1] = "dict" THEN "}" ELSE "]"
         IN  IF v[2] = <<>> THEN <<open, close>>
             ELSE IF pretty
             THEN <<open>> \o NewlineIndent(level + 1)
                      \o EncodeItems(v[2], v[1] = "dict", pretty, level + 1)
                      \o NewlineIndent(level) \o <<close>>
             ELSE <<open>> \o EncodeItems(v[2], v[1] = "dict", pretty, level + 1)
                      \o <<close>>

\* json.dumps(v, indent=2 if pretty else None, ensure_ascii=False)
JsonDumps(v, pretty) == Encode(v, pretty, 0)

\* ----------------------------------------------- the structured extractor

Fence == <<BT, BT, BT>>

JsonTag == <<"j", "s", "o", "n">>

\* A faulty variant of StripFence: lines[1:] in place of lines[1:-1].
StripFenceFirstLineOnly(content) ==
    LET trimmed == Strip(content)
    IN  IF StartsWith(trimmed, Fence)
        THEN LET lines == Split(trimmed, NL)
                 inner == IF Len(lines) > 2
                          THEN Join(<<NL>>, SubSeq(lines, 2, Len(lines)))
                          ELSE trimmed
             IN  IF StartsWith(inner, JsonTag)
                 THEN Strip(DropChars(inner, JsonTagLen))
                 ELSE inner
        ELSE trimmed

\* A faulty variant of StripFence: without the test len(lines) > 2.
StripFenceUnguarded(content) ==
    LET trimmed == Strip(content)
    IN  IF StartsWith(trimmed, Fence)
        THEN LET lines == Split(trimmed, NL)
                 inner == Join(<<NL>>, SubSeq(lines, 2, Len(lines) - 1))
             IN  IF StartsWith(inner, JsonTag)
                 THEN Strip(DropChars(inner, JsonTagLen))
                 ELSE inner
        ELSE trimmed

\* The text handed to json.loads for the completion text `content`:
\* trimmed, and with a markdown code block's wrapping removed.
StripFence(content) ==
    LET trimmed == Strip(content)
    IN  IF StartsWith(trimmed, Fence)
        THEN LET lines == Split(trimmed, NL)
                 inner == IF Len(lines) > 2
                          THEN Join(<<NL>>, SubSeq(lines, 2, Len(lines) - 1))
                          ELSE trimmed
             IN  IF StartsWith(inner, JsonTag)
                 THEN Strip(DropChars(inner, JsonTagLen))
                 ELSE inner
        ELSE trimmed

\* ------------------------------------------------------- exceptions

\* No exception.
NoExc == [type |-> "none", msg |-> "none"]

\* An exception of class `type` carrying message `msg`.
Exc(type, msg) == [type |-> type, msg |-> msg]

\* ----------------------------------------------------- the text extractor

\* What a path can name.
PathKinds == {"missing", "directory", "unreadable", "corrupt", "pdf"}

\* A faulty variant of IsFile: every path passes.
IsFileUnchecked(kind) == kind \in PathKinds

\* os.path.isfile(path)
IsFile(kind) == kind \in {"unreadable", "corrupt", "pdf"}

\* open(path, 'rb'): the exception class it raises, or "ok".
OpenRead(kind) ==
    IF kind = "missing" THEN "FileNotFoundError"
    ELSE IF kind = "directory" THEN "IsADirectoryError"
    ELSE IF kind = "unreadable" THEN "PermissionError"
    ELSE "ok"

\* PyPDF2.PdfReader(file): the exception class it raises, or "ok".
ReadPdf(kind) == IF kind = "corrupt" THEN "PdfReadError" ELSE "ok"

\* The texts one page can yield: nothing (a scanned page), blank, or words.
PageTexts == {<<>>, <<SP>>, <<"a">>}

\* The documents of at most n pages, each the page texts in page order.
Documents(n) == UNION {[1..k -> PageTexts] : k \in 0..n}

\* A faulty variant of ExtractText: except OSError in place of
\* except FileNotFoundError.
ExtractTextCatchingOSError(kind, pgs) ==
    IF OpenRead(kind) # "ok"
    THEN [exc |-> Exc("FileNotFoundError", "PDF file not found"), text |-> <<>>]
    ELSE IF ReadPdf(kind) # "ok"
    THEN [exc |-> Exc("Exception", "Error extracting text from PDF"), text |-> <<>>]
    ELSE [exc |-> NoExc, text |-> Join(<<NL, NL>>, pgs)]

\* extract_text_from_pdf(pdf_path), the path naming `kind` and the document
\* holding the pages pgs: the exception raised, or the text returned.
ExtractText(kind, pgs) ==
    IF OpenRead(kind) = "FileNotFoundError"
    THEN [exc |-> Exc("FileNotFoundError", "PDF file not found"), text |-> <<>>]
    ELSE IF OpenRead(kind) # "ok" \/ ReadPdf(kind) # "ok"
    THEN [exc |-> Exc("Exception", "Error extracting text from PDF"), text |-> <<>>]
    ELSE [exc |-> NoExc, text |-> Join(<<NL, NL>>, pgs)]

\* A faulty variant of IsBlank: not pdf_text
IsBlankUntrimmed(text) == text = <<>>

\* not pdf_text.strip()
IsBlank(text) == Strip(text) = <<>>

\* ------------------------------------------------------------- credential

\* The values --api-key and OPENAI_API_KEY can have: unset, empty, a key.
KeyInputs == {"None", "", "sk"}

\* Python truth of an optional string.
Truthy(k) == k \notin {"None", ""}

\* api_key or os.getenv("OPENAI_API_KEY")
ResolveKey(arg, env) == IF Truthy(arg) THEN arg ELSE env

\* ------------------------------------------------------- model completions

\* The lines a completion is made of.
Lines == {
    Fence,
    Fence \o JsonTag,
    JsonTag,
    JsonTag \o <<SP, "{", "}">>,
    <<"{", QT, "n", QT, ":", SP, "1", "}">>,
    <<"[">>,
    <<"]">>,
    <<"1">>,
    <<>> }

\* The completion texts: one to MaxLines lines.
Completions ==
    {Join(<<NL>>, ls) : ls \in UNION {[1..n -> Lines] : n \in 1..MaxLines}}

\* What client.chat.completions.create can do: raise, or return a response
\* whose message content is None or a text.
CallOutcomes == {"error", "no_content", "text"}

\* ------------------------------------------------------------ output file

\* A path holding no file.
NoFile == [exists |-> FALSE, data |-> <<>>]

\* A file holding `data`.
File(data) == [exists |-> TRUE, data |-> data]

\* What the output path can hold before the run.
OldFiles == {NoFile, File(<<"o", "l", "d">>)}

\* The proper prefixes of a text.
ProperPrefixes(text) == {SubSeq(text, 1, n) : n \in 0..(Len(text) - 1)}

\* A line on stdout or stderr: a notice, or for "json" the JSON text.
Notice(what) == [line |-> what, text |-> <<>>]

JsonLine(text) == [line |-> "json", text |-> text]

\* The exit status of a run that has not ended.
NoStatus == 0 - 1

\* ------------------------------------------------------------------ state

VARIABLES
    pc,           \* where the run is
    pdf_kind,     \* what args.pdf_file names
    pages,        \* the document at the path of a direct extract_text_from_pdf
                  \* call (a command-line run reads its document in ScanExtract)
    output,       \* args.output given (-o)
    outFile,      \* the file at the output path
    outFile0,     \* the file at the output path before the run
    api_key,      \* self.api_key
    pdf_text,     \* pdf_text of scan_invoice
    calls,        \* remote calls made
    call,         \* what the remote call did
    completion,   \* response.choices[0].message.content
    json_text,    \* the text handed to json.loads
    invoice_data, \* the parsed result
    json_output,  \* json.dumps of the result
    stdout,
    stderr,
    raised,       \* the exception that ended the run
    status        \* exit status

vars == <<pc, pdf_kind, pages, output, outFile, outFile0, api_key, pdf_text,
          calls, call, completion, json_text, invoice_data, json_output,
          stdout, stderr, raised, status>>

\* What no run has touched yet.
Fresh ==
    /\ outFile = outFile0
    /\ api_key = "None"
    /\ pdf_text = <<>>
    /\ calls = 0
    /\ call = "not_made"
    /\ completion = <<>>
    /\ json_text = <<>>
    /\ invoice_data = <<>>
    /\ json_output = <<>>
    /\ stdout = <<>>
    /\ stderr = <<>>
    /\ raised = NoExc
    /\ status = NoStatus

\* A command-line run, after parser.parse_args().
Init ==
    /\ pc = "start"
    /\ pdf_kind \in PathKinds
    /\ pages = <<>>
    /\ output \in BOOLEAN
    /\ outFile0 \in (IF output THEN OldFiles ELSE {NoFile})
    /\ Fresh

\* ---------------------------------------------------------------- main

\* A faulty variant of Fail: return 0
FailSilently(exc) ==
    /\ raised' = exc
    /\ stderr' = Append(stderr, exc.msg)
    /\ status' = 0
    /\ pc' = "exit"

\* except Exception as e: print(f"\nError: {e}", file=sys.stderr); return 1
Fail(exc) ==
    /\ raised' = exc
    /\ stderr' = Append(stderr, exc.msg)
    /\ status' = 1
    /\ pc' = "exit"

\* if not os.path.isfile(args.pdf_file): ... sys.exit(1)
CheckPath ==
    /\ pc = "start"
    /\ IF IsFile(pdf_kind)
       THEN /\ pc' = "construct"
            /\ UNCHANGED <<stderr, status>>
       ELSE /\ stderr' = Append(stderr, "PDF file not found")
            /\ status' = 1
            /\ pc' = "exit"
    /\ UNCHANGED <<pdf_kind, pages, output, outFile, outFile0, api_key,
                   pdf_text, calls, call, completion, json_text, invoice_data,
                   json_output, stdout, raised>>

\* scanner = PDFInvoiceScanner(api_key=args.api_key)
Construct ==
    /\ pc = "construct"
    /\ \E arg \in KeyInputs, env \in KeyInputs :
         /\ api_key' = ResolveKey(arg, env)
         /\ IF Truthy(api_key')
            THEN /\ pc' = "scan"
                 /\ UNCHANGED <<raised, stderr, status>>
            ELSE Fail(Exc("ValueError", "OpenAI API key not found"))
    /\ UNCHANGED <<pdf_kind, pages, output, outFile, outFile0, pdf_text, calls,
                   call, completion, json_text, invoice_data, json_output,
                   stdout>>

\* scan_invoice, to the return of extract_text_from_pdf
ScanExtract ==
    /\ pc = "scan"
    /\ stdout' = Append(stdout, Notice("Extracting text from PDF"))
    /\ \E pgs \in (IF pdf_kind = "pdf" THEN Documents(MaxPages) ELSE {<<>>}) :
         LET r == ExtractText(pdf_kind, pgs)
         IN  IF r.exc = NoExc
             THEN /\ pdf_text' = r.text
                  /\ pc' = "check"
                  /\ UNCHANGED <<raised, stderr, status>>
             ELSE /\ Fail(r.exc)
                  /\ UNCHANGED pdf_text
    /\ UNCHANGED <<pdf_kind, pages, output, outFile, outFile0, api_key, calls,
                   call, completion, json_text, invoice_data, json_output>>

\* scan_invoice, the check of the extracted text
CheckText ==
    /\ pc = "check"
    /\ IF IsBlank(pdf_text)
       THEN /\ Fail(Exc("ValueError", "No text could be extracted from the PDF file"))
            /\ UNCHANGED stdout
       ELSE /\ stdout' = Append(stdout, Notice("Parsing invoice with OpenAI..."))
            /\ pc' = "parse"
            /\ UNCHANGED <<raised, stderr, status>>
    /\ UNCHANGED <<pdf_kind, pages, output, outFile, outFile0, api_key,
                   pdf_text, calls, call, completion, json_text, invoice_data,
                   json_output>>

\* The except clauses of parse_invoice_to_json: the exception raised for an
\* exception of class cls caught in the try block.
ParseExc(cls) ==
    IF cls = "JSONDecodeError"
    THEN Exc("ValueError", "Error parsing JSON from OpenAI response")
    ELSE Exc("Exception", "Error calling OpenAI API")

\* The try block of parse_invoice_to_json for a remote call that did `outcome`
\* and, if it returned a text, returned `content`: the class of the exception
\* raised in the block ("ok" for none), the text handed to json.loads and the
\* value returned.
ParseTry(outcome, content) ==
    IF outcome = "error"
    THEN [cls |-> "APIError", text |-> <<>>, data |-> <<>>]
    ELSE IF outcome = "no_content"
    THEN [cls |-> "AttributeError", text |-> <<>>, data |-> <<>>]
    ELSE LET text == StripFence(content)
             r == JsonLoads(text)
         IN  IF r.ok
             THEN [cls |-> "ok", text |-> text, data |-> r.v]
             ELSE [cls |-> "JSONDecodeError", text |-> text, data |-> <<>>]

\* scan_invoice, the call of parse_invoice_to_json and the return
ParseInvoice ==
    /\ pc = "parse"
    /\ calls' = calls + 1
    /\ pdf_text' = <<>>
    /\ \E outcome \in CallOutcomes :
       \E content \in (IF outcome = "text" THEN Completions ELSE {<<>>}) :
         LET r == ParseTry(outcome, content)
         IN  /\ call' = outcome
             /\ completion' = content
             /\ json_text' = r.text
             /\ invoice_data' = r.data
             /\ IF r.cls = "ok"
                THEN /\ pc' = "format"
                     /\ UNCHANGED <<raised, stderr, status>>
                ELSE Fail(ParseExc(r.cls))
    /\ UNCHANGED <<pdf_kind, pages, output, outFile, outFile0, api_key,
                   json_output, stdout>>

\* A faulty variant of FormatOutput: the output file is opened before the
\* result is serialized.
FormatOutputOpeningFile ==
    /\ pc = "format"
    /\ \E pretty \in BOOLEAN : json_output' = JsonDumps(invoice_data, pretty)
    /\ outFile' = IF output THEN File(<<>>) ELSE outFile
    /\ pc' = "emit"
    /\ UNCHANGED <<pdf_kind, pages, output, outFile0, api_key, pdf_text,
                   calls, call, completion, json_text, invoice_data, stdout,
                   stderr, raised, status>>

\* json_output = json.dumps(invoice_data, indent=indent, ensure_ascii=False)
FormatOutput ==
    /\ pc = "format"
    /\ \E pretty \in BOOLEAN : json_output' = JsonDumps(invoice_data, pretty)
    /\ pc' = "emit"
    /\ UNCHANGED <<pdf_kind, pages, output, outFile, outFile0, api_key,
                   pdf_text, calls, call, completion, json_text, invoice_data,
                   stdout, stderr, raised, status>>

\* with open(args.output, 'w', encoding='utf-8') as f: f.write(json_output)
\* open can fail, leaving the path as it was; once it has opened the file
\* (created or truncated it) the write can fail part-way.
EmitFile ==
    /\ pc = "emit"
    /\ output
    /\ \/ /\ outFile' = File(json_output)
          /\ stdout' = Append(stdout, Notice("Success! Invoice data saved"))
          /\ status' = 0
          /\ pc' = "exit"
          /\ UNCHANGED <<raised, stderr>>
       \/ /\ Fail(Exc("OSError", "cannot open the output file"))
          /\ UNCHANGED <<outFile, stdout>>
       \/ /\ \E written \in ProperPrefixes(json_output) :
                outFile' = File(written)
          /\ Fail(Exc("OSError", "cannot write the output file"))
          /\ UNCHANGED stdout
    /\ UNCHANGED <<pdf_kind, pages, output, outFile0, api_key, pdf_text,
                   calls, call, completion, json_text, invoice_data,
                   json_output>>

\* The three lines printed before the JSON.
Banner == <<Notice("===="), Notice("INVOICE DATA (JSON)"), Notice("====")>>

\* print("\n" + "="*50); print("INVOICE DATA (JSON)"); print("="*50);
\* print(json_output): the last print can fail on text stdout cannot encode.
EmitPrint ==
    /\ pc = "emit"
    /\ ~output
    /\ \/ /\ stdout' = stdout \o Banner \o <<JsonLine(json_output)>>
          /\ status' = 0
          /\ pc' = "exit"
          /\ UNCHANGED <<raised, stderr>>
       \/ /\ stdout' = stdout \o Banner
          /\ Fail(Exc("UnicodeEncodeError", "cannot encode the output"))
    /\ UNCHANGED <<pdf_kind, pages, output, outFile, outFile0, api_key,
                   pdf_text, calls, call, completion, json_text, invoice_data,
                   json_output>>

Next ==
    \/ CheckPath
    \/ Construct
    \/ ScanExtract
    \/ CheckText
    \/ ParseInvoice
    \/ FormatOutput
    \/ EmitFile
    \/ EmitPrint

Spec == Init /\ [][Next]_vars

\* ------------------------------------- extract_text_from_pdf called alone

\* A direct call of extract_text_from_pdf on any path; a file that exists
\* holds a document.
InitExtract ==
    /\ pc = "extract"
    /\ pdf_kind \in PathKinds
    /\ pages \in (IF pdf_kind \in {"unreadable", "pdf"} THEN Documents(MaxDirectPages)
                  ELSE {<<>>})
    /\ output = FALSE
    /\ outFile0 = NoFile
    /\ Fresh

ExtractCall ==
    /\ pc = "extract"
    /\ LET r == ExtractText(pdf_kind, pages)
       IN  /\ raised' = r.exc
           /\ pdf_text' = r.text
    /\ pc' = "extracted"
    /\ UNCHANGED <<pdf_kind, pages, output, outFile, outFile0, api_key, calls,
                   call, completion, json_text, invoice_data, json_output,
                   stdout, stderr, status>>

NextExtract == ExtractCall

SpecExtract == InitExtract /\ [][NextExtract]_vars

\* ----------------------------------------------------------------- claims

NoTextExc == Exc("ValueError", "No text could be extracted from the PDF file")

MalformedExc == Exc("ValueError", "Error parsing JSON from OpenAI response")

ServiceExc == Exc("Exception", "Error calling OpenAI API")

ExtractionExc == Exc("Exception", "Error extracting text from PDF")

NoKeyExc == Exc("ValueError", "OpenAI API key not found")

\* C1: when the extracted text is empty or only whitespace, scan_invoice
\* fails with the empty-content error and no remote call is made in the run.
C1_BlankTextFailsWithoutCall ==
    [][(pc = "check" /\ Strip(pdf_text) = <<>>)
          => /\ pc' = "exit"
             /\ status' = 1
             /\ raised' = NoTextExc
             /\ calls' = 0
             /\ call' = "not_made"]_vars

\* A run on a document of two pages without text, joined to "\n\n".
C1_Witness ==
    /\ pc = "exit"
    /\ pdf_text = <<NL, NL>>
    /\ raised = NoTextExc
    /\ calls = 0

\* C2: for an input path that is no existing file the run prints the
\* file-not-found message to stderr, exits 1 and runs no later stage: no
\* credential is resolved, nothing is extracted, no remote call is made and
\* the output path is not written.
C2_MissingFileStopsRun ==
    pdf_kind \in {"missing", "directory"}
        => /\ pc \in {"start", "exit"}
           /\ api_key = "None"
           /\ stdout = <<>>
           /\ pdf_text = <<>>
           /\ calls = 0
           /\ call = "not_made"
           /\ outFile = outFile0
           /\ pc = "exit" => (status = 1 /\ stderr = <<"PDF file not found">>)

C2_Witness ==
    /\ pc = "exit"
    /\ pdf_kind = "missing"
    /\ status = 1
    /\ stderr = <<"PDF file not found">>

\* The result was written to the output path, or printed after the banner.
ResultEmitted ==
    /\ json_output # <<>>
    /\ IF output
       THEN /\ outFile = File(json_output)
            /\ stdout[Len(stdout)] = Notice("Success! Invoice data saved")
       ELSE /\ Len(stdout) >= Len(Banner) + 1
            /\ stdout[Len(stdout)] = JsonLine(json_output)
            /\ SubSeq(stdout, Len(stdout) - Len(Banner), Len(stdout) - 1) = Banner

\* Every stage of the run succeeded.
AllStagesSucceeded ==
    /\ pdf_kind = "pdf"
    /\ Truthy(api_key)
    /\ stdout # <<>>
    /\ call = "text"
    /\ JsonLoads(json_text).ok
    /\ invoice_data = JsonLoads(json_text).v
    /\ raised = NoExc
    /\ stderr = <<>>
    /\ ResultEmitted

\* One of the failures: missing file, missing credential, extraction failure,
\* empty text, service failure, malformed model output, write failure.
SomeStageFailed ==
    \/ pdf_kind \in {"missing", "directory"}
    \/ raised = NoKeyExc
    \/ raised = ExtractionExc
    \/ raised = NoTextExc
    \/ raised = ServiceExc
    \/ raised = MalformedExc
    \/ raised.type \in {"OSError", "UnicodeEncodeError"}

\* C3: a run never stops before it exits, and it exits with status 0 or 1:
\* 0 exactly when every stage succeeded, 1 for each of the failures.
C3_ExitStatus ==
    /\ pc # "exit" => (status = NoStatus /\ ENABLED Next)
    /\ pc = "exit" =>
         /\ status \in {0, 1}
         /\ status = 0 <=> AllStagesSucceeded
         /\ status = 1 <=> SomeStageFailed

C3_Witness ==
    /\ pc = "exit"
    /\ status = 0
    /\ output
    /\ outFile = File(json_output)
    /\ invoice_data = <<"dict", << <<(<<"n">>), (<<"int", 1>>)>> >> >>

\* C4: a run ends either with status 0 and the whole JSON written or printed,
\* or with status 1 and no output: the output file neither created, truncated
\* nor partly written, and no banner or JSON printed.
C4_NoPartialSuccess ==
    pc = "exit" =>
        \/ status = 0 /\ ResultEmitted
        \/ /\ status = 1
           /\ outFile = outFile0
           /\ \A i \in 1..Len(stdout) :
                  stdout[i].line \notin {"====", "INVOICE DATA (JSON)", "json"}

\* The lines of the trimmed text.
TrimmedLines(text) == Split(Strip(text), NL)

\* What lies between the first and the last line of the trimmed text.
FencedBody(text) ==
    LET lines == TrimmedLines(text)
    IN  Join(<<NL>>, SubSeq(lines, 2, Len(lines) - 1))

\* An opening fence line, with or without the tag json, then a valid JSON
\* text, then a closing fence line, with optional whitespace around.
IsFencedJson(text) ==
    LET lines == TrimmedLines(text)
    IN  /\ Len(lines) >= 3
        /\ lines[1] \in {Fence, Fence \o JsonTag}
        /\ lines[Len(lines)] = Fence
        /\ JsonLoads(FencedBody(text)).ok

\* C5: a completion that is a fenced valid JSON text J is parsed to the
\* value of J alone.
C5_FencedJsonParsed ==
    (call = "text" /\ IsFencedJson(completion))
        => /\ invoice_data = JsonLoads(FencedBody(completion)).v
           /\ raised \notin {MalformedExc, ServiceExc}

C5_Witness ==
    /\ call = "text"
    /\ completion = Fence \o JsonTag \o <<NL>>
                      \o <<"{", QT, "n", QT, ":", SP, "1", "}">>
                      \o <<NL>> \o Fence
    /\ invoice_data = <<"dict", << <<(<<"n">>), (<<"int", 1>>)>> >> >>

\* C6: parse_invoice_to_json fails in two ways, assigned by cause: with the
\* malformed-output error when decoding the post-processed text as JSON
\* fails, with the service error when the remote call itself raises, and
\* never one for the other cause.
C6_FailureByCause ==
    LET decodeFailed == call = "text" /\ ~JsonLoads(json_text).ok
        parseFailed == call # "not_made" /\ invoice_data = <<>>
    IN  /\ decodeFailed <=> raised = MalformedExc
        /\ call = "error" <=> raised = ServiceExc
        /\ parseFailed => raised \in {MalformedExc, ServiceExc}

\* C7: the result of a successful run is a JSON object.
C7_ResultIsObject ==
    (pc = "exit" /\ status = 0) => invoice_data[1] = "dict"

\* C8 as claimed: extract_text_from_pdf raises FileNotFoundError for every
\* path that is no readable file (missing, a directory, unreadable), and the
\* generic extraction error only when the reader cannot parse the file.
C8_NotFoundForEveryUnreadablePath ==
    pc = "extracted" =>
        /\ pdf_kind \in {"missing", "directory", "unreadable"}
              => raised.type = "FileNotFoundError"
        /\ raised = ExtractionExc => pdf_kind = "corrupt"

\* C8 as amended: extract_text_from_pdf raises FileNotFoundError exactly
\* when the path does not exist; for a directory, for a file the process
\* cannot read and for a file the reader cannot parse it raises the generic
\* extraction error.
C8_NotFoundOnlyForMissingPath ==
    pc = "extracted" =>
        /\ raised.type = "FileNotFoundError" <=> pdf_kind = "missing"
        /\ raised = ExtractionExc
              <=> pdf_kind \in {"directory", "unreadable", "corrupt"}
        /\ raised = NoExc <=> pdf_kind = "pdf"

C8_Witness ==
    /\ pc = "extracted"
    /\ pdf_kind = "directory"
    /\ raised = ExtractionExc

\* The positions of the newlines of a text.
Newlines(text) == {i \in 1..Len(text) : text[i] = NL}

Min(S) == CHOOSE x \in S : \A y \in S : x <= y

Max(S) == CHOOSE x \in S : \A y \in S : x >= y

\* C9 as claimed: of a trimmed text that begins with a fence the first and
\* the last line are dropped whatever the number of lines, then a first
\* remaining line that is a language tag is dropped whole.
ClaimedStrip(text) ==
    LET trimmed == Strip(text)
        lines == Split(trimmed, NL)
        rest == SubSeq(lines, 2, Len(lines) - 1)
    IN  IF ~StartsWith(trimmed, Fence) THEN trimmed
        ELSE IF rest # <<>> /\ rest[1] = JsonTag THEN Join(<<NL>>, Tail(rest))
        ELSE Join(<<NL>>, rest)

C9_FenceLinesAlwaysDropped ==
    call = "text" => json_text = ClaimedStrip(completion)

\* C9 as amended: a trimmed text that begins with a fence and has more than
\* two lines loses its first and last line; if what is left begins with the
\* four characters json, these (not the line) are removed and the rest is
\* trimmed.  A text of one or two lines, and a text that does not begin with
\* a fence, is handed to the parser as trimmed.
AmendedStrip(text) ==
    LET trimmed == Strip(text)
        nl == Newlines(trimmed)
        inner == SubSeq(trimmed, Min(nl) + 1, Max(nl) - 1)
    IN  IF ~StartsWith(trimmed, Fence) \/ Cardinality(nl) < 2 THEN trimmed
        ELSE IF StartsWith(inner, JsonTag)
        THEN Strip(SubSeq(inner, Len(JsonTag) + 1, Len(inner)))
        ELSE inner

C9_FenceStrippedFromThreeLines ==
    call = "text" => json_text = AmendedStrip(completion)

\* A fence opened and closed with nothing between: two lines, handed on whole.
C9_Witness ==
    /\ call = "text"
    /\ completion = Fence \o <<NL>> \o Fence
    /\ json_text = Fence \o <<NL>> \o Fence
    /\ raised = MalformedExc

\* C10: the output path is opened only after the scan has returned and the
\* result is serialized: a run that fails at an earlier stage leaves the file
\* at the output path as it was and creates none.
C10_OutputUntouchedBeforeEmit ==
    /\ outFile # outFile0
          => /\ pc = "exit"
             /\ call = "text"
             /\ invoice_data # <<>>
             /\ json_output # <<>>
    /\ (pc = "exit" /\ (\/ pdf_kind \in {"missing", "directory"}
                        \/ raised \in {NoKeyExc, ExtractionExc, NoTextExc,
                                       ServiceExc, MalformedExc}))
          => outFile = outFile0

C10_Witness ==
    /\ pc = "exit"
    /\ output
    /\ outFile0.exists
    /\ raised = MalformedExc
    /\ outFile = outFile0
====
